---- MODULE Spec2Model ----
(***************************************************************************)
(* Model of backend/walrus_clients.py: one synchronous run that reads its  *)
(* configuration, fetches the latest block, filters the block's            *)
(* transactions by recipient and calldata, and POSTs one record per match  *)
(* to the storage endpoint.                                                *)
(*                                                                         *)
(* Python strings are sequences of one-character strings, so that          *)
(* str.lower(), slicing and concatenation are computed, not assumed.       *)
(***************************************************************************)
EXTENDS Integers, Sequences, FiniteSets

\* ------------------------------------------------------------------ bounds
\* Longest transaction list of a fetched block.
MaxTxs == 2

\* ------------------------------------------------------------- the values
\* Python's None: no one-character string, so it equals no Python string.
None == <<"None">>

\* Truthiness of an optional string: None and '' are falsy.
Truthy(v) == v # None /\ v # <<>>

\* The default of SMART_ACCOUNT_ADDR, '0xYourWalletAddressHere'.
PLACEHOLDER ==
    <<"0","x","Y","o","u","r","W","a","l","l","e","t",
      "A","d","d","r","e","s","s","H","e","r","e">>

\* str.lower() on one character.
LowerChar(c) ==
    CASE c = "A" -> "a" [] c = "B" -> "b" [] c = "C" -> "c" [] c = "D" -> "d"
      [] c = "E" -> "e" [] c = "F" -> "f" [] c = "H" -> "h" [] c = "W" -> "w"
      [] c = "X" -> "x" [] c = "Y" -> "y"
      [] OTHER -> c

\* str.lower().
Lower(s) == [j \in 1..Len(s) |-> LowerChar(s[j])]

\* s[:10]
Prefix10(s) == SubSeq(s, 1, IF Len(s) < 10 THEN Len(s) ELSE 10)

\* os.getenv(name, default): the default when the variable is unset.
Getenv(v, default) == IF v = None THEN default ELSE v

\* The addresses of the model: one wallet in two spellings, and another one.
AddrUpper == <<"0","x","A","B">>
AddrLower == <<"0","x","a","b">>
AddrOther == <<"0","x","c","d">>

\* The values the environment can give ZIRCUIT_RPC and WALRUS_BASE.
RpcUrls == {None, <<>>, <<"r","p","c">>}
BaseUrls == {None, <<>>, <<"w","a","l">>}

\* The values the environment can give SMART_ACCOUNT_ADDR (None: unset).
EnvAddrs == {None, PLACEHOLDER, AddrUpper}

\* The addresses an importing caller passes to pull_and_store_calldata.
CallAddrs == {AddrLower}

\* A transaction of a block: 'hash' always, 'to' null (None) for a contract
\* creation, 'input' possibly absent from the mapping. The transactions to
\* the wallet come with every kind of input; those to no one or to another
\* address come with calldata, which only their recipient keeps out.
Hashes == {<<"0","x","1">>, <<"0","x","2">>}
Calldata == <<"0","x","A","b","1">>
Inputs == {<<>>, <<"0","x">>, Calldata}
TxSet ==
    [hash : Hashes, to : {AddrUpper, AddrLower}, input : Inputs]
      \cup [hash : Hashes, to : {AddrUpper, AddrLower}]
      \cup [hash : Hashes, to : {None, <<>>, AddrOther}, input : {Calldata}]

\* dict.get(key) and dict.get(key, default)
Get(d, key) == IF key \in DOMAIN d THEN d[key] ELSE None
GetOr(d, key, default) == IF key \in DOMAIN d THEN d[key] ELSE default

TxLists == UNION {[1..n -> TxSet] : n \in 0..MaxTxs}

\* The blocks get_block can return: a transaction list, no 'transactions'
\* key, or (a malformed reply) no 'number' key.
Blocks ==
    [number : {7}, transactions : TxLists]
      \cup {[number |-> 7]}
      \cup {[transactions |-> <<>>]}

\* The block before any fetch: a mapping with no key.
NoBlock == [x \in {} |-> 0]

\* The responses requests.post can return.
Responses ==
    {[status_code |-> 201, text |-> "created"],
     [status_code |-> 200, text |-> "ok"],
     [status_code |-> 500, text |-> "error"]}

VARIABLES
    ZIRCUIT_RPC_URL,      \* module global, line 10
    WALRUS_BASE_URL,      \* module global, line 11
    pc,                   \* where the run is
    user_wallet_address,  \* __main__'s local, None when the function is imported
    wallet_address,       \* the argument of pull_and_store_calldata
    client,               \* create_client(http(url)), None before it
    block,                \* the fetched block
    i,                    \* position of the scan loop (line 39) in the list
    calldata_to_store,    \* the filtered list
    k,                    \* position of the upload loop (line 55)
    net,                  \* the network calls made so far, in order
    out                   \* the lines printed so far, in order

vars == <<ZIRCUIT_RPC_URL, WALRUS_BASE_URL, pc, user_wallet_address,
          wallet_address, client, block, i, calldata_to_store, k, net, out>>

\* print(...): one line, its text named by msg and its interpolated value.
print_line(msg, arg) == out' = Append(out, [msg |-> msg, arg |-> arg])

Init ==
    /\ ZIRCUIT_RPC_URL \in RpcUrls
    /\ WALRUS_BASE_URL \in BaseUrls
    /\ pc = "start"
    /\ user_wallet_address = None
    /\ wallet_address = None
    /\ client = None
    /\ block = NoBlock
    /\ i = 0
    /\ calldata_to_store = <<>>
    /\ k = 0
    /\ net = <<>>
    /\ out = <<>>

\* ------------------------------------------------------------- __main__
\* Variant of IsPlaceholder: tests for an unset variable, not for the default.
IsPlaceholderUnset(addr) == addr = None

\* Line 82: the test for the default.
IsPlaceholder(addr) == addr = PLACEHOLDER

\* Lines 76-85: the script's entry.
Main ==
    /\ pc = "start"
    /\ \E v \in EnvAddrs :
         LET addr == Getenv(v, PLACEHOLDER) IN
         /\ user_wallet_address' = addr
         /\ IF IsPlaceholder(addr)
              THEN /\ print_line("set SMART_ACCOUNT_ADDR", None)
                   /\ pc' = "exit"
                   /\ UNCHANGED wallet_address
              ELSE /\ wallet_address' = addr
                   /\ pc' = "called"
                   /\ UNCHANGED out
    /\ UNCHANGED <<ZIRCUIT_RPC_URL, WALRUS_BASE_URL, client, block, i,
                   calldata_to_store, k, net>>

\* Line 13: the function called by a module that imports it.
Call ==
    /\ pc = "start"
    /\ \E w \in CallAddrs : wallet_address' = w
    /\ pc' = "called"
    /\ UNCHANGED <<ZIRCUIT_RPC_URL, WALRUS_BASE_URL, user_wallet_address,
                   client, block, i, calldata_to_store, k, net, out>>

\* ------------------------------------------- pull_and_store_calldata
\* Variant of ConfigMissing: only the chain endpoint is tested.
ConfigMissingRpcOnly(rpc, base) == ~Truthy(rpc)

\* Line 21: the guard on the two endpoints.
ConfigMissing(rpc, base) == ~Truthy(rpc) \/ ~Truthy(base)

\* Variant of Handler: the exception is raised again.
HandlerReraise(printed, e) ==
    /\ out' = printed
    /\ pc' = "raised"

\* Lines 73-74: the one handler of the function's try block.
\* printed is what the try block printed before the exception.
Handler(printed, e) ==
    /\ out' = Append(printed, [msg |-> "An error occurred", arg |-> e])
    /\ pc' = "returned"

\* Lines 21-26: the configuration guard, then the chain client. create_client
\* is outside the try block: an exception it raises reaches the caller.
CheckConfig ==
    /\ pc = "called"
    /\ IF ConfigMissing(ZIRCUIT_RPC_URL, WALRUS_BASE_URL)
         THEN /\ print_line("Error: ZIRCUIT_RPC and WALRUS_BASE must be set", None)
              /\ pc' = "returned"
              /\ UNCHANGED client
         ELSE /\ print_line("Connecting to Zircuit testnet", ZIRCUIT_RPC_URL)
              /\ \/ /\ client' = <<"http", ZIRCUIT_RPC_URL>>
                    /\ pc' = "fetch"
                 \/ /\ pc' = "raised"
                    /\ UNCHANGED client
    /\ UNCHANGED <<ZIRCUIT_RPC_URL, WALRUS_BASE_URL, user_wallet_address,
                   wallet_address, block, i, calldata_to_store, k, net>>

\* block.get('transactions', [])
Transactions(b) == GetOr(b, "transactions", <<>>)

\* Lines 29-37, get_block returning a block: the block number is printed
\* (a KeyError when the reply has none), the list is emptied and the scan
\* starts.
FetchBlock ==
    /\ pc = "fetch"
    /\ \E b \in Blocks :
         /\ net' = Append(net, [call |-> "get_block", raised |-> FALSE])
         /\ block' = b
         /\ IF "number" \in DOMAIN b
              THEN /\ out' = out \o
                        <<[msg |-> "Fetching the latest block", arg |-> None],
                          [msg |-> "Fetched block number", arg |-> b.number],
                          [msg |-> "Searching for transactions to", arg |-> wallet_address]>>
                   /\ calldata_to_store' = <<>>
                   /\ i' = 1
                   /\ pc' = "scan"
              ELSE /\ Handler(Append(out, [msg |-> "Fetching the latest block",
                                              arg |-> None]), "KeyError")
                   /\ UNCHANGED <<calldata_to_store, i>>
    /\ UNCHANGED <<ZIRCUIT_RPC_URL, WALRUS_BASE_URL, user_wallet_address,
                   wallet_address, client, k>>

\* Lines 29-33 and 73-74, get_block raising: the handler runs.
FetchRaises ==
    /\ pc = "fetch"
    /\ net' = Append(net, [call |-> "get_block", raised |-> TRUE])
    /\ Handler(Append(out, [msg |-> "Fetching the latest block", arg |-> None]),
               "get_block")
    /\ UNCHANGED <<ZIRCUIT_RPC_URL, WALRUS_BASE_URL, user_wallet_address,
                   wallet_address, client, block, i, calldata_to_store, k>>

\* Variant of Matches: the recipient is compared as spelled.
MatchesCaseSensitive(tx, wallet) ==
    /\ Truthy(Get(tx, "to"))
    /\ tx.to = wallet
    /\ Truthy(Get(tx, "input"))
    /\ Get(tx, "input") # <<"0","x">>

\* Variant of Matches: the '0x' calldata is not set apart.
MatchesAnyInput(tx, wallet) ==
    /\ Truthy(Get(tx, "to"))
    /\ Lower(tx.to) = Lower(wallet)
    /\ Truthy(Get(tx, "input"))

\* Lines 40-42: the test a transaction passes to be kept.
Matches(tx, wallet) ==
    /\ Truthy(Get(tx, "to"))
    /\ Lower(tx.to) = Lower(wallet)
    /\ Truthy(Get(tx, "input"))
    /\ Get(tx, "input") # <<"0","x">>

\* Lines 44-47: the record kept for a transaction.
Item(tx) == [tx_hash |-> tx.hash, calldata |-> Get(tx, "input")]

\* Variant of AppendItem: list.insert(0, item).
AppendItemFront(list, item) == <<item>> \o list

\* Line 44: list.append
AppendItem(list, item) == Append(list, item)

\* Lines 39-47: one iteration of the scan loop.
ScanTx ==
    /\ pc = "scan"
    /\ i <= Len(Transactions(block))
    /\ LET tx == Transactions(block)[i] IN
         IF Matches(tx, wallet_address)
           THEN /\ print_line("Found transaction", Prefix10(tx.hash))
                /\ calldata_to_store' = AppendItem(calldata_to_store, Item(tx))
           ELSE UNCHANGED <<out, calldata_to_store>>
    /\ i' = i + 1
    /\ UNCHANGED <<ZIRCUIT_RPC_URL, WALRUS_BASE_URL, pc, user_wallet_address,
                   wallet_address, client, block, k, net>>

\* Lines 49-53: after the scan loop, return when nothing was kept.
ScanDone ==
    /\ pc = "scan"
    /\ i > Len(Transactions(block))
    /\ IF calldata_to_store = <<>>
         THEN /\ print_line("No transactions with calldata found", None)
              /\ pc' = "returned"
              /\ UNCHANGED k
         ELSE /\ print_line("Storing", Len(calldata_to_store))
              /\ pc' = "upload"
              /\ k' = 1
    /\ UNCHANGED <<ZIRCUIT_RPC_URL, WALRUS_BASE_URL, user_wallet_address,
                   wallet_address, client, block, i, calldata_to_store, net>>

\* f"Calldata from tx {tx_hash}"
DescriptionPrefix ==
    <<"C","a","l","l","d","a","t","a"," ","f","r","o","m"," ","t","x"," ">>

\* Variant of Payload: the calldata is normalised to lower case.
PayloadNormalised(item) ==
    [description |-> DescriptionPrefix \o item.tx_hash,
     arbitrary_data |-> [calldata |-> Lower(item.calldata)]]

\* Lines 58-63: the JSON body of one POST.
Payload(item) ==
    [description |-> DescriptionPrefix \o item.tx_hash,
     arbitrary_data |-> [calldata |-> item.calldata]]

\* Variant of IsStored: any 2xx status counts.
IsStored2xx(response) == response.status_code \in 200..299

\* Line 66: the status that counts as stored.
IsStored(response) == response.status_code = 201

\* Variant of NextItem: an item whose POST was not stored is taken again.
NextItemRetry(n, response) == IF response.status_code = 201 THEN n + 1 ELSE n

\* Line 55: the item the loop takes after the one at k.
NextItem(n, response) == n + 1

\* Lines 55-69, requests.post returning a response: the outcome is printed
\* and the loop goes on.
PostItem ==
    /\ pc = "upload"
    /\ k <= Len(calldata_to_store)
    /\ \E response \in Responses :
         LET item == calldata_to_store[k] IN
         /\ net' = Append(net, [call |-> "post", url |-> WALRUS_BASE_URL,
                                json |-> Payload(item), raised |-> FALSE,
                                response |-> response])
         /\ IF IsStored(response)
              THEN print_line("Successfully stored calldata from tx",
                              Prefix10(item.tx_hash))
              ELSE print_line("Failed to store calldata", response)
         /\ k' = NextItem(k, response)
    /\ UNCHANGED <<ZIRCUIT_RPC_URL, WALRUS_BASE_URL, pc, user_wallet_address,
                   wallet_address, client, block, i, calldata_to_store>>

\* Lines 64 and 73-74, requests.post raising (connection error, timeout):
\* the exception leaves the loop and the handler of the try block runs.
PostRaises ==
    /\ pc = "upload"
    /\ k <= Len(calldata_to_store)
    /\ net' = Append(net, [call |-> "post", url |-> WALRUS_BASE_URL,
                           json |-> Payload(calldata_to_store[k]),
                           raised |-> TRUE])
    /\ Handler(out, "requests.post")
    /\ UNCHANGED <<ZIRCUIT_RPC_URL, WALRUS_BASE_URL, user_wallet_address,
                   wallet_address, client, block, i, calldata_to_store, k>>

\* Line 71: after the upload loop.
UploadDone ==
    /\ pc = "upload"
    /\ k > Len(calldata_to_store)
    /\ print_line("Process complete", None)
    /\ pc' = "returned"
    /\ UNCHANGED <<ZIRCUIT_RPC_URL, WALRUS_BASE_URL, user_wallet_address,
                   wallet_address, client, block, i, calldata_to_store, k, net>>

Next ==
    \/ Main
    \/ Call
    \/ CheckConfig
    \/ FetchBlock
    \/ FetchRaises
    \/ ScanTx
    \/ ScanDone
    \/ PostItem
    \/ PostRaises
    \/ UploadDone

Spec == Init /\ [][Next]_vars

\* ---------------------------------------------- what the properties speak of
\* The claimed test: 'to' present and non-empty and equal to the wallet when
\* both are lower-cased, 'input' present, non-empty and not '0x'.
ClaimMatch(tx, wallet) ==
    /\ "to" \in DOMAIN tx
    /\ tx.to \notin {None, <<>>}
    /\ Lower(tx.to) = Lower(wallet)
    /\ "input" \in DOMAIN tx
    /\ tx.input \notin {None, <<>>, <<"0","x">>}

\* The record and the payload a matching transaction is expected to give.
ClaimItem(tx) == [tx_hash |-> tx.hash, calldata |-> tx.input]
ClaimPayload(tx) ==
    [description |-> DescriptionPrefix \o tx.hash,
     arbitrary_data |-> [calldata |-> tx.input]]

\* A block was fetched and its number printed; its transaction list.
Fetched == "number" \in DOMAIN block
Txs == Transactions(block)
ScanComplete == Fetched /\ i > Len(Txs)

\* The matching transactions among the first n of the block, in block order.
MatchingUpTo(n) ==
    SelectSeq(SubSeq(Txs, 1, n), LAMBDA t : ClaimMatch(t, wallet_address))
Matching == MatchingUpTo(Len(Txs))

\* The network calls of each kind, in the order made.
Fetches == SelectSeq(net, LAMBDA c : c.call = "get_block")
Posts == SelectSeq(net, LAMBDA c : c.call = "post")
PostRaised == \E n \in DOMAIN net : net[n].call = "post" /\ net[n].raised

\* The printed lines with a given text.
Lines(msg) == {n \in DOMAIN out : out[n].msg = msg}
LastLine == out[Len(out)].msg

Count(seq, r) == Cardinality({n \in DOMAIN seq : seq[n] = r})

\* ------------------------------------------------------------ the properties
\* C1: at every moment of the scan, the filtered list holds, counted with
\* multiplicity, exactly the records of the transactions scanned so far
\* that pass the claimed test: a transaction is kept if and only if its
\* 'to' is present, non-empty and equal to the wallet address when both are
\* lower-cased, and its 'input' is present, non-empty and not '0x'.
C1_FilterIff ==
    Fetched =>
      LET kept == {j \in 1..(i - 1) : ClaimMatch(Txs[j], wallet_address)}
          recs == {calldata_to_store[n] : n \in DOMAIN calldata_to_store}
                    \cup {ClaimItem(Txs[j]) : j \in kept}
      IN \A r \in recs :
           Count(calldata_to_store, r)
             = Cardinality({j \in kept : ClaimItem(Txs[j]) = r})

\* A scan is over in which a transaction to the wallet in another spelling
\* was kept and one with the '0x' calldata to the same wallet was not.
C1_Witness ==
    /\ ScanComplete
    /\ Len(Txs) = 2
    /\ Txs[1].to = AddrUpper /\ wallet_address = AddrLower
    /\ ClaimMatch(Txs[1], wallet_address)
    /\ Txs[2].to = AddrLower /\ Get(Txs[2], "input") = <<"0","x">>
    /\ calldata_to_store = <<ClaimItem(Txs[1])>>

\* C2: when a run with N >= 1 matching transactions, all of whose POSTs
\* returned a response, has ended, it made N POSTs, printed a success line
\* for exactly the responses with status 201 and a failure line for each of
\* the others, and ended on 'Process complete'.
C2_AllUploadsAttempted ==
    (pc = "returned" /\ Fetched /\ Len(Matching) >= 1 /\ ~PostRaised) =>
      LET ok == {n \in DOMAIN Posts : Posts[n].response.status_code = 201} IN
      /\ Len(Posts) = Len(Matching)
      /\ Cardinality(Lines("Successfully stored calldata from tx"))
           = Cardinality(ok)
      /\ Cardinality(Lines("Failed to store calldata"))
           = Len(Matching) - Cardinality(ok)
      /\ LastLine = "Process complete"

\* A run of two matching transactions ended after a 200 on the first and a
\* 201 on the second.
C2_Witness ==
    /\ pc = "returned"
    /\ Fetched
    /\ Len(Matching) = 2
    /\ Len(Posts) = 2
    /\ ~PostRaised
    /\ Posts[1].response.status_code = 200
    /\ Posts[2].response.status_code = 201

\* C3: a run in which a POST raised has still POSTed every filtered item
\* when it ends, and never entered the handler of the try block.
C3_UploadExceptionIsolated ==
    (pc = "returned" /\ PostRaised) =>
      /\ Len(Posts) = Len(calldata_to_store)
      /\ Lines("An error occurred") = {}

\* C4: a call made with the chain endpoint or the storage endpoint unset or
\* empty creates no client and makes no network call, and has printed the
\* configuration error and nothing else when it returns.
C4_ConfigMissingNoNetwork ==
    (wallet_address # None
       /\ (ZIRCUIT_RPC_URL \in {None, <<>>} \/ WALRUS_BASE_URL \in {None, <<>>})) =>
      /\ pc \in {"called", "returned"}
      /\ client = None
      /\ net = <<>>
      /\ pc = "returned" =>
           /\ Len(out) = 1
           /\ LastLine = "Error: ZIRCUIT_RPC and WALRUS_BASE must be set"

\* A call returned with the chain endpoint set and the storage endpoint empty.
C4_Witness ==
    /\ pc = "returned"
    /\ wallet_address = AddrLower
    /\ Truthy(ZIRCUIT_RPC_URL)
    /\ WALRUS_BASE_URL = <<>>

\* C5: once get_block has raised, the run has returned to its caller, its
\* last line is the handler's, and no POST was made.
C5_FetchErrorHandled ==
    (\E n \in DOMAIN net : net[n].call = "get_block" /\ net[n].raised) =>
      /\ pc = "returned"
      /\ LastLine = "An error occurred"
      /\ Posts = <<>>
      /\ Len(Fetches) = 1

\* get_block raised.
C5_Witness ==
    /\ Len(net) = 1
    /\ net[1].call = "get_block"
    /\ net[1].raised
    /\ client # None

\* C6: a run whose fetched block has no matching transaction makes no POST,
\* and when it ends its last line is 'No transactions with calldata found'
\* and the handler of the try block has not run.
C6_NoMatchNoUpload ==
    (Fetched /\ Len(Matching) = 0) =>
      /\ Posts = <<>>
      /\ pc \in {"scan", "returned"}
      /\ pc = "returned" =>
           /\ LastLine = "No transactions with calldata found"
           /\ Lines("An error occurred") = {}

\* A run ended with nothing to store: on a block with no 'transactions'
\* key, or on a block whose only transaction to the wallet has the '0x'
\* calldata.
C6_Witness ==
    /\ pc = "returned"
    /\ Fetched
    /\ \/ "transactions" \notin DOMAIN block
       \/ /\ Len(Txs) = 2
          /\ Txs[1].to = wallet_address
          /\ Get(Txs[1], "input") = <<"0","x">>
          /\ Txs[2].to = AddrOther

\* C7: the filtered list is, at every moment of the scan, the matching
\* transactions scanned so far in block order, repeated ones kept, and the
\* n-th POST is the one of the n-th of them.
C7_OrderPreserved ==
    Fetched =>
      LET sel == MatchingUpTo(i - 1) IN
      /\ calldata_to_store = [n \in 1..Len(sel) |-> ClaimItem(sel[n])]
      /\ Len(Posts) <= Len(sel)
      /\ \A n \in DOMAIN Posts : Posts[n].json = ClaimPayload(sel[n])

\* Both POSTs of a block whose two matching transactions differ were made.
C7_Witness ==
    /\ Len(Txs) = 2
    /\ Len(Matching) = 2
    /\ Txs[1].hash # Txs[2].hash
    /\ Len(Posts) = 2

\* C8: every POST carries the unchanged 'input' of a matching transaction of
\* the fetched block and a description made of the fixed text and that
\* transaction's hash; the calldata is never '0x'.
C8_PayloadIsCopy ==
    \A n \in DOMAIN Posts :
      /\ Fetched
      /\ \E j \in DOMAIN Txs :
           /\ ClaimMatch(Txs[j], wallet_address)
           /\ Posts[n].json.arbitrary_data.calldata = Txs[j].input
           /\ Posts[n].json.description = DescriptionPrefix \o Txs[j].hash
      /\ Posts[n].json.arbitrary_data.calldata # <<"0","x">>
      /\ DOMAIN Posts[n].json = {"description", "arbitrary_data"}
      /\ DOMAIN Posts[n].json.arbitrary_data = {"calldata"}

\* A POST was made for calldata with a capital letter in it, from a block
\* that also holds a transaction with the '0x' calldata.
C8_Witness ==
    /\ Len(Posts) >= 1
    /\ Posts[1].json.arbitrary_data.calldata = Calldata
    /\ \E j \in DOMAIN Txs : Get(Txs[j], "input") = <<"0","x">>

\* C9: a script run whose wallet address is the placeholder ends at once:
\* it prints the guidance and nothing else, creates no client and makes no
\* network call.
C9_PlaceholderNoNetwork ==
    user_wallet_address = PLACEHOLDER =>
      /\ pc = "exit"
      /\ Len(out) = 1
      /\ LastLine = "set SMART_ACCOUNT_ADDR"
      /\ wallet_address = None
      /\ client = None
      /\ net = <<>>

\* The script ended on the placeholder with both endpoints set.
C9_Witness ==
    /\ user_wallet_address = PLACEHOLDER
    /\ pc = "exit"
    /\ ~ConfigMissing(ZIRCUIT_RPC_URL, WALRUS_BASE_URL)

\* C10: a run makes at most one get_block call and, before any POST, has
\* scanned the whole block; it makes no more POSTs than the block has
\* matching transactions, the n-th POST is for the n-th filtered record, and
\* nothing follows a call that raised.
C10_NoRetry ==
    /\ Len(Fetches) <= 1
    /\ Posts # <<>> => ScanComplete
    /\ Fetched => Len(Posts) <= Len(Matching)
    /\ Len(Posts) <= Len(calldata_to_store)
    /\ \A n \in DOMAIN Posts :
         Posts[n].json.description
           = DescriptionPrefix \o calldata_to_store[n].tx_hash
    /\ \A n \in DOMAIN net : net[n].raised => n = Len(net)

\* A run ended after a POST that was not stored and a POST that raised.
C10_Witness ==
    /\ pc = "returned"
    /\ Len(Posts) = 2
    /\ Posts[1].response.status_code = 500
    /\ Posts[2].raised
====
